---- MODULE Spec2Model ----
(***************************************************************************)
(* Model of the learning agent of athipan1/Optimizer_Agent:                *)
(*   learning_agent/logic.py         run_learning_cycle and its helpers    *)
(*   learning_agent/regime_logic.py  run_regime_analysis, _classify_regime *)
(*   learning_agent/main.py          the two endpoints calling them        *)
(*                                                                         *)
(* Numbers.  pnl_pct is a float in the source.  Here a pnl_pct is an       *)
(* integer number of hundredths (PnlScale), and every quantity derived     *)
(* from it is kept as an exact fraction: the equity curve and the          *)
(* drawdown as fractions of arbitrary-size naturals (sequences of digits   *)
(* in base BigBase, least significant first), the win rate and the         *)
(* variance of returns as fractions of integers.  The volatility is a      *)
(* square root; it is kept as its square and every comparison that         *)
(* involves it is made between squares.  Rounding of binary floating       *)
(* point is not modelled.                                                  *)
(***************************************************************************)
EXTENDS Integers, Sequences, FiniteSets, TLC

\* ------------------------------------------------------------------------
\* Arithmetic on naturals of arbitrary size (the values of the float
\* expressions of logic.py are products of up to MaxGroup factors).
\* ------------------------------------------------------------------------

\* the unit of pnl_pct: a pnl of p means p / PnlScale
PnlScale == 100

\* the base of the digits of a big natural
BigBase == 10000

BigZero == << >>

BigDigit(a, i) == IF i <= Len(a) THEN a[i] ELSE 0

MaxOf(x, y) == IF x >= y THEN x ELSE y

RECURSIVE BigNorm(_)
\* drop the most significant zeros
BigNorm(a) ==
    IF a = << >> THEN a
    ELSE IF a[Len(a)] = 0 THEN BigNorm(SubSeq(a, 1, Len(a) - 1))
    ELSE a

RECURSIVE BigFromInt(_)
BigFromInt(n) ==
    IF n = 0 THEN << >>
    ELSE <<n % BigBase>> \o BigFromInt(n \div BigBase)

RECURSIVE BigCarryFrom(_, _, _)
\* the digits of the natural whose i-th digit position holds the integer raw[i]
BigCarryFrom(raw, i, carry) ==
    IF i > Len(raw) THEN BigFromInt(carry)
    ELSE LET s == raw[i] + carry
         IN  <<s % BigBase>> \o BigCarryFrom(raw, i + 1, s \div BigBase)

BigCarry(raw) == BigNorm(BigCarryFrom(raw, 1, 0))

BigAdd(a, b) ==
    BigCarry([i \in 1..MaxOf(Len(a), Len(b)) |-> BigDigit(a, i) + BigDigit(b, i)])

\* a - b for a >= b
BigSub(a, b) == BigCarry([i \in 1..Len(a) |-> a[i] - BigDigit(b, i)])

\* a * k for an integer 0 <= k < 200000
BigMulSmall(a, k) == BigCarry([i \in 1..Len(a) |-> a[i] * k])

RECURSIVE BigConvolve(_, _, _, _)
\* the sum of a[j] * b[k + 1 - j] for j >= i
BigConvolve(a, b, k, i) ==
    IF i > Len(a) \/ i > k THEN 0
    ELSE (IF k + 1 - i <= Len(b) THEN a[i] * b[k + 1 - i] ELSE 0)
         + BigConvolve(a, b, k, i + 1)

\* a * b, for a of at most 20 digits
BigMul(a, b) ==
    IF a = << >> \/ b = << >> THEN << >>
    ELSE BigCarry([k \in 1..(Len(a) + Len(b) - 1) |-> BigConvolve(a, b, k, 1)])

RECURSIVE BigCmpFrom(_, _, _)
BigCmpFrom(a, b, i) ==
    IF i = 0 THEN 0
    ELSE IF a[i] > b[i] THEN 1
    ELSE IF a[i] < b[i] THEN -1
    ELSE BigCmpFrom(a, b, i - 1)

\* the sign of a - b, for normalised a and b
BigCmp(a, b) ==
    IF Len(a) > Len(b) THEN 1
    ELSE IF Len(a) < Len(b) THEN -1
    ELSE BigCmpFrom(a, b, Len(a))

\* the sign of x.n / x.d - y.n / y.d for fractions of big naturals
BigFracCmp(x, y) == BigCmp(BigMul(x.n, y.d), BigMul(y.n, x.d))

\* ------------------------------------------------------------------------
\* logic.py: constants
\* ------------------------------------------------------------------------

ASSET_MIN_TRADES_WARMUP == 10
\* 0.08, as a fraction
MAX_DRAWDOWN_THRESHOLD == [n |-> 8, d |-> 100]
CONSECUTIVE_LOSS_THRESHOLD == 3
RECENT_TRADES_WINDOW == 10
\* -0.005, in thousandths
RISK_PER_TRADE_ADJUSTMENT == -5

\* 0.70 and 0.45, in hundredths
PERFORMANCE_UPPER_THRESHOLD == 70
PERFORMANCE_LOWER_THRESHOLD == 45
\* 0.05, in hundredths
BIAS_ADJUSTMENT_INCREMENT == 5

\* 0.50, 0.35 and 0.15, in hundredths
WEIGHT_WIN_RATE == 50
WEIGHT_MAX_DRAWDOWN == 35
WEIGHT_VOLATILITY == 15
\* 0.20 and 0.10, as fractions
MAX_ACCEPTABLE_DRAWDOWN == [n |-> 20, d |-> 100]
MAX_ACCEPTABLE_VOLATILITY == [n |-> 10, d |-> 100]

\* ------------------------------------------------------------------------
\* logic.py: _calculate_asset_performance
\* ------------------------------------------------------------------------

\* pnl_pcts = [t.pnl_pct for t in trades]
PnlPcts(trades) == [i \in 1..Len(trades) |-> trades[i].pnl_pct]

RECURSIVE SumSeq(_, _)
SumSeq(s, i) == IF i > Len(s) THEN 0 ELSE s[i] + SumSeq(s, i + 1)

\* mutation: a trade that breaks even is a win
WinRateWithZero(pnl_pcts) ==
    IF pnl_pcts # << >>
    THEN [n |-> Cardinality({i \in 1..Len(pnl_pcts) : pnl_pcts[i] >= 0}),
          d |-> Len(pnl_pcts)]
    ELSE [n |-> 0, d |-> 1]

\* mutation: the losing trades are counted
WinRateInverted(pnl_pcts) ==
    IF pnl_pcts # << >>
    THEN [n |-> Cardinality({i \in 1..Len(pnl_pcts) : pnl_pcts[i] < 0}),
          d |-> Len(pnl_pcts)]
    ELSE [n |-> 0, d |-> 1]

\* win_rate = len([p for p in pnl_pcts if p > 0]) / len(pnl_pcts) if pnl_pcts else 0
WinRate(pnl_pcts) ==
    IF pnl_pcts # << >>
    THEN [n |-> Cardinality({i \in 1..Len(pnl_pcts) : pnl_pcts[i] > 0}),
          d |-> Len(pnl_pcts)]
    ELSE [n |-> 0, d |-> 1]

RECURSIVE CumProdFrom(_, _, _)
\* the products of the first i factors PnlScale + p, i.e. np.cumprod of
\* [1 + p] with the i-th entry scaled by PnlScale^i
CumProdFrom(pnl_pcts, i, acc) ==
    IF i > Len(pnl_pcts) THEN << >>
    ELSE LET e == BigMulSmall(acc, PnlScale + pnl_pcts[i])
         IN  <<e>> \o CumProdFrom(pnl_pcts, i + 1, e)

RECURSIVE BigScale(_, _)
\* a * PnlScale^e
BigScale(a, e) == IF e = 0 THEN a ELSE BigScale(BigMulSmall(a, PnlScale), e - 1)

\* equity_curve = np.cumprod([1 + p for p in pnl_pcts]); every entry is
\* scaled by the same PnlScale^len, which (equity_curve - peak) / peak cancels
EquityCurve(pnl_pcts) ==
    LET c == CumProdFrom(pnl_pcts, 1, <<1>>)
    IN  [i \in 1..Len(pnl_pcts) |-> BigScale(c[i], Len(pnl_pcts) - i)]

\* the larger of two naturals
BigMax(a, b) == IF BigCmp(a, b) > 0 THEN a ELSE b

RECURSIVE MaximumAccumulate(_, _, _)
\* peak = np.maximum.accumulate(equity_curve): the first entry is the first peak
MaximumAccumulate(curve, i, best) ==
    IF i > Len(curve) THEN << >>
    ELSE <<BigMax(curve[i], best)>>
         \o MaximumAccumulate(curve, i + 1, BigMax(curve[i], best))

\* -(equity_curve - peak) / peak, entry by entry: a fraction >= 0
Drawdown(curve, peak) ==
    [i \in 1..Len(curve) |-> [n |-> BigSub(peak[i], curve[i]), d |-> peak[i]]]

RECURSIVE BigFracMaxFrom(_, _, _)
BigFracMaxFrom(fs, i, best) ==
    IF i > Len(fs) THEN best
    ELSE BigFracMaxFrom(fs, i + 1,
                        IF BigFracCmp(fs[i], best) > 0 THEN fs[i] ELSE best)

\* the largest entry of a non-empty list of fractions
BigFracMax(fs) == BigFracMaxFrom(fs, 2, fs[1])

\* the drawdown list of an equity curve
DrawdownOf(curve) == Drawdown(curve, MaximumAccumulate(curve, 1, BigZero))

\* max_drawdown = abs(np.min(drawdown)), 0 for no trade
MaxDrawdown(pnl_pcts) ==
    IF pnl_pcts = << >>
    THEN [n |-> BigZero, d |-> <<1>>]
    ELSE BigFracMax(DrawdownOf(EquityCurve(pnl_pcts)))

\* the population variance of len values with the given sum and sum of squares
Variance(len, sum, squares) ==
    [n |-> len * squares - sum * sum, d |-> len * len * PnlScale * PnlScale]

\* np.std(pnl_pcts) ** 2 (the population variance) if len(pnl_pcts) > 1 else 0
VolatilitySquared(pnl_pcts) ==
    IF Len(pnl_pcts) > 1
    THEN Variance(Len(pnl_pcts), SumSeq(pnl_pcts, 1),
                  SumSeq([i \in 1..Len(pnl_pcts) |-> pnl_pcts[i] * pnl_pcts[i]], 1))
    ELSE [n |-> 0, d |-> 1]

\* the dictionary _calculate_asset_performance builds from the pnl_pct list
PerformanceOf(pnl_pcts) ==
    [win_rate |-> WinRate(pnl_pcts),
     max_drawdown |-> MaxDrawdown(pnl_pcts),
     volatility_sq |-> VolatilitySquared(pnl_pcts),
     trade_count |-> Len(pnl_pcts)]

\* _calculate_asset_performance(trades) ("volatility" squared)
CalculateAssetPerformance(trades) == PerformanceOf(PnlPcts(trades))


\* ------------------------------------------------------------------------
\* logic.py: run_learning_cycle
\* ------------------------------------------------------------------------

\* a * k for an integer k >= 0 of any size
BigMulInt(a, k) == BigMul(a, BigFromInt(k))

\* 1.0 - min(1.0, n / d) for a ratio n / d of big naturals
OneMinusCapped(n, d) ==
    IF BigCmp(n, d) >= 0
    THEN [n |-> BigZero, d |-> <<1>>]
    ELSE [n |-> BigSub(d, n), d |-> d]

\* mdd_score = 1.0 - min(1.0, perf["max_drawdown"] / MAX_ACCEPTABLE_DRAWDOWN),
\* a fraction of big naturals
MddScore(perf) ==
    OneMinusCapped(BigMulSmall(perf.max_drawdown.n, MAX_ACCEPTABLE_DRAWDOWN.d),
                   BigMulSmall(perf.max_drawdown.d, MAX_ACCEPTABLE_DRAWDOWN.n))

\* min(1.0, perf["volatility"] / MAX_ACCEPTABLE_VOLATILITY) = 1.0
VolatilityCapped(perf) ==
    perf.volatility_sq.n * MAX_ACCEPTABLE_VOLATILITY.d * MAX_ACCEPTABLE_VOLATILITY.d
        >= MAX_ACCEPTABLE_VOLATILITY.n * MAX_ACCEPTABLE_VOLATILITY.n * perf.volatility_sq.d

\* The sign of performance_score - threshold / 100, where
\*   performance_score = WEIGHT_WIN_RATE * wr_score
\*                     + WEIGHT_MAX_DRAWDOWN * mdd_score
\*                     + WEIGHT_VOLATILITY * vol_score
\* and vol_score = 1.0 - min(1.0, volatility / MAX_ACCEPTABLE_VOLATILITY).
\* With wr_score = w / c and mdd_score = mn / md, times 100 * c * md:
\*   pos - neg - [the volatility term],
\*   pos = W_WR * w * md + W_MDD * c * mn + W_VOL * c * md,  neg = threshold * c * md
\* and the volatility term is W_VOL * c * md when capped, and otherwise
\*   W_VOL * c * md * sqrt(volatility_sq) / MAX_ACCEPTABLE_VOLATILITY,
\* which is compared with pos - neg by comparing the squares.
\* (m is mdd_score, cmd is c * md, posNoVol is pos without its last term)
SquaresSign(diff, cmd, v) ==
    BigCmp(BigMulInt(BigMulInt(BigMul(diff, diff),
               MAX_ACCEPTABLE_VOLATILITY.n * MAX_ACCEPTABLE_VOLATILITY.n), v.d),
           BigMulInt(BigMulInt(BigMul(cmd, cmd),
               WEIGHT_VOLATILITY * WEIGHT_VOLATILITY
                 * MAX_ACCEPTABLE_VOLATILITY.d * MAX_ACCEPTABLE_VOLATILITY.d), v.n))

TermsSign(perf, cmd, posNoVol, pos, neg) ==
    IF VolatilityCapped(perf) THEN BigCmp(posNoVol, neg)
    ELSE IF perf.volatility_sq.n = 0 THEN BigCmp(pos, neg)
    ELSE IF BigCmp(pos, neg) <= 0 THEN -1
    ELSE SquaresSign(BigSub(pos, neg), cmd, perf.volatility_sq)

PartsSign(perf, cmd, posNoVol, threshold) ==
    TermsSign(perf, cmd, posNoVol,
              BigAdd(posNoVol, BigMulSmall(cmd, WEIGHT_VOLATILITY)),
              BigMulSmall(cmd, threshold))

MddSign(perf, m, threshold) ==
    PartsSign(perf, BigMulSmall(m.d, perf.win_rate.d),
              BigAdd(BigMulSmall(m.d, WEIGHT_WIN_RATE * perf.win_rate.n),
                     BigMulSmall(m.n, WEIGHT_MAX_DRAWDOWN * perf.win_rate.d)),
              threshold)

ScoreSign(perf, threshold) == MddSign(perf, MddScore(perf), threshold)

\* mutation: the thresholds belong to the bias bands
BiasDeltaInclusive(perf) ==
    IF ScoreSign(perf, PERFORMANCE_UPPER_THRESHOLD) >= 0 THEN BIAS_ADJUSTMENT_INCREMENT
    ELSE IF ScoreSign(perf, PERFORMANCE_LOWER_THRESHOLD) <= 0 THEN -BIAS_ADJUSTMENT_INCREMENT
    ELSE 0

\* lines 91-97: the bias delta of a warmed-up asset, in hundredths
BiasDelta(perf) ==
    IF ScoreSign(perf, PERFORMANCE_UPPER_THRESHOLD) > 0 THEN BIAS_ADJUSTMENT_INCREMENT
    ELSE IF ScoreSign(perf, PERFORMANCE_LOWER_THRESHOLD) < 0 THEN -BIAS_ADJUSTMENT_INCREMENT
    ELSE 0

RECURSIVE AssetIdsFrom(_, _, _)
\* the keys of trades_by_asset, in the order the dictionary inserts them
AssetIdsFrom(trade_history, i, seen) ==
    IF i > Len(trade_history) THEN seen
    ELSE AssetIdsFrom(trade_history, i + 1,
             IF \E k \in 1..Len(seen) : seen[k] = trade_history[i].asset_id
             THEN seen ELSE Append(seen, trade_history[i].asset_id))

\* mutation: the assets are visited last seen first
AssetIdsReversed(trade_history) ==
    [k \in 1..Len(AssetIdsFrom(trade_history, 1, << >>)) |->
        AssetIdsFrom(trade_history, 1, << >>)[Len(AssetIdsFrom(trade_history, 1, << >>)) + 1 - k]]

AssetIds(trade_history) == AssetIdsFrom(trade_history, 1, << >>)

\* trades_by_asset[asset_id]
TradesOf(trade_history, asset_id) ==
    LET Is(t) == t.asset_id = asset_id IN SelectSeq(trade_history, Is)

RECURSIVE InsertByTimestampDesc(_, _)
\* t goes after every trade of sorted whose timestamp is >= its own
InsertByTimestampDesc(sorted, t) ==
    IF sorted = << >> THEN <<t>>
    ELSE IF Head(sorted).timestamp >= t.timestamp
         THEN <<Head(sorted)>> \o InsertByTimestampDesc(Tail(sorted), t)
         ELSE <<t>> \o sorted

RECURSIVE SortedByTimestampDesc(_, _, _)
\* sorted(trades, key=lambda t: t.timestamp, reverse=True): a stable sort,
\* trades of equal timestamp keep the order of the list
SortedByTimestampDesc(trades, i, sorted) ==
    IF i > Len(trades) THEN sorted
    ELSE SortedByTimestampDesc(trades, i + 1, InsertByTimestampDesc(sorted, trades[i]))

\* mutation: every trade of the asset counts as recent
RecentTradesUnwindowed(trades) == SortedByTimestampDesc(trades, 1, << >>)

\* line 103
RecentTrades(trades) ==
    LET sorted == SortedByTimestampDesc(trades, 1, << >>)
    IN  SubSeq(sorted, 1, IF Len(sorted) < RECENT_TRADES_WINDOW
                          THEN Len(sorted) ELSE RECENT_TRADES_WINDOW)

RECURSIVE ConsecutiveLossesFrom(_, _, _)
\* lines 107-116: the value of consecutive_losses at the break, 0 without a break
ConsecutiveLossesFrom(recent_pnl, i, consecutive_losses) ==
    IF i > Len(recent_pnl) THEN 0
    ELSE IF recent_pnl[i] < 0
         THEN IF consecutive_losses + 1 >= CONSECUTIVE_LOSS_THRESHOLD
              THEN consecutive_losses + 1
              ELSE ConsecutiveLossesFrom(recent_pnl, i + 1, consecutive_losses + 1)
         ELSE ConsecutiveLossesFrom(recent_pnl, i + 1, 0)

ConsecutiveLosses(recent_pnl) == ConsecutiveLossesFrom(recent_pnl, 1, 0)

\* line 120: recent_perf["max_drawdown"] > MAX_DRAWDOWN_THRESHOLD
HighRecentDrawdown(recent_perf) ==
    BigCmp(BigMulSmall(recent_perf.max_drawdown.n, MAX_DRAWDOWN_THRESHOLD.d),
           BigMulSmall(recent_perf.max_drawdown.d, MAX_DRAWDOWN_THRESHOLD.n)) > 0

\* mutation: the warm-up count is one short
InWarmupOffByOne(trades) == Len(trades) < ASSET_MIN_TRADES_WARMUP - 1

\* line 74
InWarmup(trades) == Len(trades) < ASSET_MIN_TRADES_WARMUP

\* a reasoning string: its kind, the asset it names and the number it formats
Reason(kind, asset_id, arg) == [kind |-> kind, asset |-> asset_id, arg |-> arg]

\* a dictionary: a function of its keys
EmptyDict == << >>
DictSet(dict, key, value) == (key :> value) @@ dict

\* lines 73-122: one pass of the loop over trades_by_asset.items()
\* lines 93-97
BiasReasons(asset_id, bias_delta) ==
    IF bias_delta > 0 THEN <<Reason("positive_bias", asset_id, 0)>>
    ELSE IF bias_delta < 0 THEN <<Reason("negative_bias", asset_id, 0)>>
    ELSE << >>

\* lines 115-116 and 121-122
RiskReasons(asset_id, consecutive_losses, high) ==
    (IF consecutive_losses > 0
     THEN <<Reason("consecutive_losses", asset_id, consecutive_losses)>> ELSE << >>)
    \o (IF high THEN <<Reason("high_recent_drawdown", asset_id, 0)>> ELSE << >>)

\* mutation: a high recent drawdown is reported but does not raise the flag
ScoredAssetLossesOnly(asset_id, acc, bias_delta, consecutive_losses, high) ==
    [acc EXCEPT !.asset_biases = IF bias_delta # 0
                                 THEN DictSet(@, asset_id, bias_delta) ELSE @,
                !.reasoning = @ \o BiasReasons(asset_id, bias_delta)
                                \o RiskReasons(asset_id, consecutive_losses, high),
                !.global_risk_adjustment_needed = @ \/ consecutive_losses > 0]

\* lines 91-122 for a warmed-up asset, given what was computed from its trades
ScoredAsset(asset_id, acc, bias_delta, consecutive_losses, high) ==
    [acc EXCEPT !.asset_biases = IF bias_delta # 0
                                 THEN DictSet(@, asset_id, bias_delta) ELSE @,
                !.reasoning = @ \o BiasReasons(asset_id, bias_delta)
                                \o RiskReasons(asset_id, consecutive_losses, high),
                !.global_risk_adjustment_needed = @ \/ consecutive_losses > 0 \/ high]

\* lines 107-122 take the recent trades
RecentAsset(asset_id, acc, bias_delta, recent_trades) ==
    ScoredAsset(asset_id, acc, bias_delta,
                ConsecutiveLosses(PnlPcts(recent_trades)),
                HighRecentDrawdown(CalculateAssetPerformance(recent_trades)))

\* the body of the loop over trades_by_asset.items()
ProcessAsset(asset_id, trades, acc) ==
    IF InWarmup(trades)
    THEN [acc EXCEPT !.assets_in_warmup = @ + 1,
                     !.reasoning = Append(@, Reason("warmup", asset_id, Len(trades)))]
    ELSE RecentAsset(asset_id, acc, BiasDelta(CalculateAssetPerformance(trades)),
                     RecentTrades(trades))

RECURSIVE AssetLoop(_, _, _, _)
AssetLoop(trade_history, asset_ids, i, acc) ==
    IF i > Len(asset_ids) THEN acc
    ELSE AssetLoop(trade_history, asset_ids, i + 1,
                   ProcessAsset(asset_ids[i], TradesOf(trade_history, asset_ids[i]), acc))

\* PolicyDeltas() and LearningResponse(learning_state=..., policy_deltas=...)
PolicyDeltas(risk, asset_biases) ==
    [agent_weights |-> EmptyDict, risk |-> risk, strategy_bias |-> EmptyDict,
     guardrails |-> EmptyDict, asset_biases |-> asset_biases]

LearningResponse(learning_state, policy_deltas, reasoning) ==
    [learning_state |-> learning_state, policy_deltas |-> policy_deltas,
     reasoning |-> reasoning]

\* lines 124-126
RiskDeltas(global_risk_adjustment_needed) ==
    IF global_risk_adjustment_needed
    THEN DictSet(EmptyDict, "risk_per_trade", RISK_PER_TRADE_ADJUSTMENT)
    ELSE EmptyDict

\* mutation: "warmup" as soon as one asset is warming up
LearningStateAnyWarmup(assets_in_warmup, n_assets) ==
    IF assets_in_warmup > 0 THEN "warmup" ELSE "success"

\* lines 128-131
LearningState(assets_in_warmup, n_assets) ==
    IF assets_in_warmup = n_assets THEN "warmup" ELSE "success"

\* run_learning_cycle(request), request.trade_history being all it reads
FinalResponse(acc, n_assets) ==
    LearningResponse(LearningState(acc.assets_in_warmup, n_assets),
                     PolicyDeltas(RiskDeltas(acc.global_risk_adjustment_needed),
                                  acc.asset_biases),
                     IF acc.global_risk_adjustment_needed
                     THEN Append(acc.reasoning,
                                 Reason("global_risk", "", RISK_PER_TRADE_ADJUSTMENT))
                     ELSE acc.reasoning)

\* mutation: no early return for an empty history
GroupedCycleNoEarlyReturn(trade_history, asset_ids) ==
    FinalResponse(AssetLoop(trade_history, asset_ids, 1,
                            [asset_biases |-> EmptyDict, reasoning |-> << >>,
                             global_risk_adjustment_needed |-> FALSE,
                             assets_in_warmup |-> 0]),
                  Len(asset_ids))

\* lines 65-134, the trades grouped
GroupedCycle(trade_history, asset_ids) ==
    IF asset_ids = << >>
    THEN LearningResponse("insufficient_data", PolicyDeltas(EmptyDict, EmptyDict),
                          <<Reason("no_trades", "", 0)>>)
    ELSE FinalResponse(AssetLoop(trade_history, asset_ids, 1,
                                 [asset_biases |-> EmptyDict, reasoning |-> << >>,
                                  global_risk_adjustment_needed |-> FALSE,
                                  assets_in_warmup |-> 0]),
                       Len(asset_ids))

RunLearningCycle(trade_history) == GroupedCycle(trade_history, AssetIds(trade_history))


\* ------------------------------------------------------------------------
\* regime_logic.py: _classify_regime
\* ------------------------------------------------------------------------

\* a confidence, as a fraction of integers
Frac(n, d) == [n |-> n, d |-> d]

\* sum(signals) for a list of booleans
CountTrue(signals) == Cardinality({i \in 1..Len(signals) : signals[i]})

LearnedPatterns(trend_character, false_breakout_risk, best_strategy_fit) ==
    [trend_character |-> trend_character,
     false_breakout_risk |-> false_breakout_risk,
     best_strategy_fit |-> best_strategy_fit]

\* MarketRegimeOutput(...), with the defaults of models.py for what is not passed;
\* an Optional field holds << >> for None and <<value>> otherwise, market_regime
\* the string "None"
MarketRegimeOutput(learning_state, market_regime, confidence, explanation, learned_patterns, risk_notes, reasoning) ==
    [learning_state |-> learning_state, market_regime |-> market_regime,
     confidence |-> confidence, explanation |-> explanation,
     learned_patterns |-> learned_patterns, risk_notes |-> risk_notes,
     reasoning |-> reasoning]

\* the appended lines whose condition holds, in the order of the source
Lines(conds, texts) ==
    LET Keep(i) == conds[i]
        idx == SelectSeq([i \in 1..Len(conds) |-> i], Keep)
    IN  [k \in 1..Len(idx) |-> texts[idx[k]]]

\* lines 32-36: the scores, in the order the dictionary holds them
Scores(indicators) ==
    <<[regime |-> "uptrend",
       score |-> CountTrue(<<indicators.is_ema_trend_up, indicators.is_strong_trend,
                             indicators.is_bullish_momentum>>)],
      [regime |-> "downtrend",
       score |-> CountTrue(<<indicators.is_ema_trend_down, indicators.is_strong_trend,
                             indicators.is_bearish_momentum>>)],
      [regime |-> "ranging",
       score |-> CountTrue(<<indicators.is_weak_trend, indicators.is_in_band,
                             indicators.is_ema_slope_flat>>)]>>

\* line 38: max(scores.values())
MaxScore(scores) ==
    CHOOSE m \in {scores[i].score : i \in 1..Len(scores)} :
        \A i \in 1..Len(scores) : scores[i].score <= m

\* line 39: [r for r, s in scores.items() if s == max_score]
BestRegimes(scores, max_score) ==
    LET Best(e) == e.score = max_score
        best == SelectSeq(scores, Best)
    IN  [i \in 1..Len(best) |-> best[i].regime]

\* mutation: a shared maximum is not looked at
ClearWinnerAmongTies(max_score, best_regimes) == max_score >= 2

\* mutation: one true signal is enough to win
ClearWinnerAtOne(max_score, best_regimes) == max_score >= 1 /\ Len(best_regimes) = 1

\* line 41
ClearWinner(max_score, best_regimes) == max_score >= 2 /\ Len(best_regimes) = 1

\* _classify_regime(indicators, settings); settings only appear in the text of
\* explanation lines
ClassifyRegime(indicators) ==
    LET scores == Scores(indicators)
        max_score == MaxScore(scores)
        best_regimes == BestRegimes(scores, max_score)
    IN  IF ClearWinner(max_score, best_regimes)
        THEN LET regime == best_regimes[1]
                 confidence == Frac(max_score, 3)
                 \* "low" if confidence > 0.9 else "medium"
                 risk == IF confidence.n * 10 > 9 * confidence.d THEN "low" ELSE "medium"
             IN  IF regime = "uptrend"
                 THEN MarketRegimeOutput("success", regime, confidence,
                          Lines(<<indicators.is_ema_trend_up, indicators.is_strong_trend,
                                  indicators.is_bullish_momentum>>,
                                <<"ema_fast_above_ema_slow", "adx_strong_trend",
                                  "rsi_bullish_momentum">>),
                          <<LearnedPatterns("steady_accumulation", risk,
                                          <<"trend_following", "pullback_entry">>)>>,
                          <<"watch_rsi_divergence">>, << >>)
                 ELSE IF regime = "downtrend"
                 THEN MarketRegimeOutput("success", regime, confidence,
                          Lines(<<indicators.is_ema_trend_down, indicators.is_strong_trend,
                                  indicators.is_bearish_momentum>>,
                                <<"ema_fast_below_ema_slow", "adx_strong_trend",
                                  "rsi_bearish_momentum">>),
                          <<LearnedPatterns("consistent_distribution", risk,
                                          <<"trend_following", "short_selling">>)>>,
                          <<"cautious_of_sharp_reversals">>, << >>)
                 ELSE MarketRegimeOutput("success", regime, confidence,
                          Lines(<<indicators.is_weak_trend, indicators.is_in_band,
                                  indicators.is_ema_slope_flat>>,
                                <<"adx_no_clear_trend", "price_in_band", "ema_slope_flat">>),
                          <<LearnedPatterns("sideways_consolidation", "high",
                                          <<"mean_reversion", "range_trading">>)>>,
                          <<"avoid_trend_following">>, << >>)
        ELSE MarketRegimeOutput("success", "undefined", Frac(3, 10),
                 <<"mixed_conditions">>,
                 <<LearnedPatterns("None", "None", << >>)>>, << >>, << >>)

\* ------------------------------------------------------------------------
\* regime_logic.py: run_regime_analysis
\* ------------------------------------------------------------------------

\* what a call that raises leaves: the exception instead of a result
Raised(exception) == [exception |-> exception]

\* mutation: the weak trend reaches up to an ADX of 30, past the strong trend
FeaturesOverlapping(market) ==
    [is_ema_trend_up |-> market.ema_fast > market.ema_slow,
     is_ema_trend_down |-> market.ema_fast < market.ema_slow,
     \* abs(ema_slope) < 0.0005, ema_slope in ten-thousandths
     is_ema_slope_flat |-> (IF market.ema_slope < 0 THEN -market.ema_slope
                            ELSE market.ema_slope) < 5,
     is_strong_trend |-> market.adx > 25,
     is_weak_trend |-> market.adx < 30,
     is_bullish_momentum |-> market.rsi > 60,
     is_bearish_momentum |-> market.rsi < 40,
     \* latest ATRr > 1.5 * atr_avg
     is_atr_spike |-> market.atr * 10 > 15 * market.atr_avg,
     \* sma_50 * 0.985 < close < sma_50 * 1.015
     is_in_band |-> market.close * 1000 > market.sma_50 * 985
                    /\ market.close * 1000 < market.sma_50 * 1015,
     is_structure_break |->
         \/ (market.prior_swing_highs # << >>
             /\ \A i \in 1..Len(market.prior_swing_highs) :
                    market.recent_high > market.prior_swing_highs[i])
         \/ (market.prior_swing_lows # << >>
             /\ \A i \in 1..Len(market.prior_swing_lows) :
                    market.recent_low < market.prior_swing_lows[i])]

\* lines 120-131 and 133-142: the features, from the latest values of the
\* indicators pandas_ta computed (market) 
Features(market) ==
    [is_ema_trend_up |-> market.ema_fast > market.ema_slow,
     is_ema_trend_down |-> market.ema_fast < market.ema_slow,
     \* abs(ema_slope) < 0.0005, ema_slope in ten-thousandths
     is_ema_slope_flat |-> (IF market.ema_slope < 0 THEN -market.ema_slope
                            ELSE market.ema_slope) < 5,
     is_strong_trend |-> market.adx > 25,
     is_weak_trend |-> market.adx < 20,
     is_bullish_momentum |-> market.rsi > 60,
     is_bearish_momentum |-> market.rsi < 40,
     \* latest ATRr > 1.5 * atr_avg
     is_atr_spike |-> market.atr * 10 > 15 * market.atr_avg,
     \* sma_50 * 0.985 < close < sma_50 * 1.015
     is_in_band |-> market.close * 1000 > market.sma_50 * 985
                    /\ market.close * 1000 < market.sma_50 * 1015,
     is_structure_break |->
         \/ (market.prior_swing_highs # << >>
             /\ \A i \in 1..Len(market.prior_swing_highs) :
                    market.recent_high > market.prior_swing_highs[i])
         \/ (market.prior_swing_lows # << >>
             /\ \A i \in 1..Len(market.prior_swing_lows) :
                    market.recent_low < market.prior_swing_lows[i])]

\* lines 144-150
Indicators(f) ==
    [is_ema_trend_up |-> f.is_ema_trend_up, is_ema_trend_down |-> f.is_ema_trend_down,
     is_strong_trend |-> f.is_strong_trend, is_bullish_momentum |-> f.is_bullish_momentum,
     is_bearish_momentum |-> f.is_bearish_momentum, is_weak_trend |-> f.is_weak_trend,
     is_in_band |-> f.is_in_band, is_ema_slope_flat |-> f.is_ema_slope_flat]

\* lines 93-94: the readiness gate
MinDataPoints(settings) == settings.ema_slow + 50
TooFewBars(bars, settings) == bars < MinDataPoints(settings)

\* mutation: only the volatility spike overrides
ClassifyOrOverrideSpikeOnly(f) ==
    IF f.is_atr_spike
    THEN MarketRegimeOutput("success", "volatile_transition", Frac(1, 1),
             Lines(<<f.is_atr_spike, f.is_structure_break>>,
                   <<"atr_spike", "structure_break">>),
             <<LearnedPatterns("unpredictable", "very_high",
                               <<"breakout_strategies", "volatility_trading">>)>>,
             <<"high_risk_of_whipsaws">>, << >>)
    ELSE ClassifyRegime(Indicators(f))

\* lines 153-166
ClassifyOrOverride(f) ==
    IF f.is_atr_spike \/ f.is_structure_break
    THEN MarketRegimeOutput("success", "volatile_transition", Frac(1, 1),
             Lines(<<f.is_atr_spike, f.is_structure_break>>,
                   <<"atr_spike", "structure_break">>),
             <<LearnedPatterns("unpredictable", "very_high",
                             <<"breakout_strategies", "volatility_trading">>)>>,
             <<"high_risk_of_whipsaws">>, << >>)
    ELSE ClassifyRegime(Indicators(f))

\* run_regime_analysis(request): request.bars is len(request.price_history),
\* request.rows the number of rows df.dropna leaves, request.market the latest
\* indicator values
RunRegimeAnalysis(request) ==
    \* lines 88-89: a DataFrame built from no bar has no column, and
    \* df['timestamp'] raises KeyError
    IF request.bars = 0 THEN Raised("KeyError")
    ELSE IF TooFewBars(request.bars, request.indicators)
    THEN MarketRegimeOutput("insufficient_data", "None", Frac(2, 10), << >>, << >>,
                            << >>, <<"price_history_too_short">>)
    ELSE IF request.rows = 0
    THEN MarketRegimeOutput("insufficient_data", "None", Frac(2, 10), << >>, << >>,
                            << >>, <<"not_enough_data_for_indicators">>)
    ELSE ClassifyOrOverride(Features(request.market))


\* ------------------------------------------------------------------------
\* analysis.py
\* ------------------------------------------------------------------------

\* hasattr(trade, name): the fields of the object are the fields of its class
HasAttribute(trade, name) == name \in DOMAIN trade

\* line 19: trade_history[-lookback_window:]
LookbackTrades(trade_history, lookback_window) ==
    IF lookback_window = 0 \/ lookback_window >= Len(trade_history)
    THEN trade_history
    ELSE SubSeq(trade_history, Len(trade_history) - lookback_window + 1, Len(trade_history))

\* line 29: only "buy" and "sell" signals are measured
IsDirectional(signal) == signal \in {"buy", "sell"}

\* lines 33-35
IsCorrectSignal(is_profitable, signal_matches_action) ==
    (is_profitable /\ signal_matches_action) \/ (~is_profitable /\ ~signal_matches_action)

\* the counts of one agent before a trade (lines 24-26 start them at 0)
CountsOf(counts, agent_name) ==
    IF agent_name \in DOMAIN counts THEN counts[agent_name] ELSE [signals |-> 0, correct |-> 0]

\* lines 23-36 for one agent of one trade
CountSignal(before, trade, signal) ==
    IF IsDirectional(signal)
    THEN [signals |-> before.signals + 1,
          correct |-> before.correct
                      + IF IsCorrectSignal(trade.pnl_pct > 0, signal = trade.action)
                        THEN 1 ELSE 0]
    ELSE before

\* lines 22-36 for one trade: agent_signal_counts and agent_correct_counts
CountTrade(counts, trade) ==
    [agent_name \in DOMAIN counts \cup DOMAIN trade.agents |->
        IF agent_name \in DOMAIN trade.agents
        THEN CountSignal(CountsOf(counts, agent_name), trade, trade.agents[agent_name])
        ELSE counts[agent_name]]

\* line 33 is reached for a trade: one of its signals is directional
ReadsAction(trade) == \E agent_name \in DOMAIN trade.agents : IsDirectional(trade.agents[agent_name])

RECURSIVE CountTrades(_, _, _)
\* lines 21-36: the loop over recent_trades; trade.agents (line 23) and
\* trade.action (line 33) raise AttributeError on an object without them
CountTrades(recent_trades, i, counts) ==
    IF i > Len(recent_trades) THEN counts
    ELSE IF ~HasAttribute(recent_trades[i], "agents") THEN Raised("AttributeError")
    ELSE IF ReadsAction(recent_trades[i]) /\ ~HasAttribute(recent_trades[i], "action")
         THEN Raised("AttributeError")
    ELSE CountTrades(recent_trades, i + 1, CountTrade(counts, recent_trades[i]))

\* lines 38-44: correct / total for the agents with total_signals > 0
AgentAccuracies(counts) ==
    IF "exception" \in DOMAIN counts THEN counts
    ELSE [agent_name \in {a \in DOMAIN counts : counts[a].signals > 0} |->
            Frac(counts[agent_name].correct, counts[agent_name].signals)]

\* analyze_agent_accuracy(trade_history, lookback_window)
AnalyzeAgentAccuracy(trade_history, lookback_window) ==
    AgentAccuracies(CountTrades(LookbackTrades(trade_history, lookback_window), 1, EmptyDict))

\* the dict without one key
WithoutKey(dict, key) == [k \in DOMAIN dict \ {key} |-> dict[k]]

RECURSIVE SortedValues(_)
\* sorted(dict.values()), ascending
SortedValues(dict) ==
    IF DOMAIN dict = {} THEN << >>
    ELSE LET least == CHOOSE k \in DOMAIN dict : \A j \in DOMAIN dict : dict[k] <= dict[j]
         IN  <<dict[least]>> \o SortedValues(WithoutKey(dict, least))

\* mutation: the lower of the two middle values
MedianAccuracyLower(agent_accuracies) ==
    SortedValues(agent_accuracies)[(Cardinality(DOMAIN agent_accuracies) - 1) \div 2 + 1]

\* line 108: sorted(values)[len // 2], the upper of the two middle values
MedianAccuracy(agent_accuracies) ==
    SortedValues(agent_accuracies)[Cardinality(DOMAIN agent_accuracies) \div 2 + 1]

\* line 114: weight > 0.4, in hundredths
HighWeight == 40

\* lines 110-117: True for an agent of high weight and low accuracy
BiasDetected(agent_accuracies, agent_weights, median_accuracy) ==
    [agent_name \in DOMAIN agent_weights |->
        /\ agent_name \in DOMAIN agent_accuracies
        /\ agent_weights[agent_name] > HighWeight
        /\ agent_accuracies[agent_name] < median_accuracy]

\* detect_confirmation_bias(agent_accuracies, agent_weights)
DetectConfirmationBias(agent_accuracies, agent_weights) ==
    IF DOMAIN agent_accuracies = {} THEN EmptyDict
    ELSE BiasDetected(agent_accuracies, agent_weights, MedianAccuracy(agent_accuracies))

\* ------------------------------------------------------------------------
\* The requests the service is called with
\* ------------------------------------------------------------------------

\* largest number of trades of the first asset
MaxGroup == 11
\* longest run of trades of the first asset that differ from the others
MaxRun == 3
\* number of trades of a second asset still in warm-up
SmallGroup == 3
\* largest number of price bars
MaxBars == 71

\* pnl_pct of a trade, in hundredths
PnlValues == {-30, -2, 0, 2, 30}
SecondPnlValues == {-2, 2}

GroupSizes == {0} \cup ((ASSET_MIN_TRADES_WARMUP - 1)..MaxGroup)
SecondGroupSizes == {SmallGroup, ASSET_MIN_TRADES_WARMUP}

Listings == {"oldest_first", "newest_first", "same_time"}

\* n trades of one asset in list order; the timestamps rise along the list,
\* fall along it, or are all the same.  Trade.timestamp is a string that
\* sorted() compares; an integer stands for it, in the same order
GroupTrades(asset_id, pnl_pcts, listing) ==
    [i \in 1..Len(pnl_pcts) |->
        [asset_id |-> asset_id, pnl_pct |-> pnl_pcts[i],
         timestamp |-> IF listing = "oldest_first" THEN i
                       ELSE IF listing = "newest_first" THEN Len(pnl_pcts) + 1 - i
                       ELSE 1]]

\* n values, all base except a run of r values other, first or last in the
\* list, or first in the list with a value base between its last two
RunPattern(n, base, other, r, place) ==
    [i \in 1..n |->
        IF \/ place = "first" /\ i <= r
           \/ place = "last" /\ i > n - r
           \/ place = "broken" /\ i <= r + 1 /\ i # r
        THEN other ELSE base]

FirstGroups ==
    {GroupTrades("A", RunPattern(p.n, p.base, p.other, p.r, p.place), p.listing) :
        p \in [n : GroupSizes, base : PnlValues, other : PnlValues, r : 0..MaxRun,
               place : {"first", "last", "broken"}, listing : Listings]}

\* the groups of the first asset whose trades all have the same pnl_pct
UniformGroups ==
    {GroupTrades("A", RunPattern(p.n, p.base, p.base, 0, "first"), p.listing) :
        p \in [n : GroupSizes \ {0}, base : PnlValues, listing : Listings]}

SecondGroups ==
    {GroupTrades("B", [i \in 1..p.n |-> p.pnl], "oldest_first") :
        p \in [n : SecondGroupSizes, pnl : SecondPnlValues]}

\* LearningRequest.trade_history: the trades of one asset, or of two assets
\* one after the other
TradeHistories ==
    FirstGroups
    \cup {g \o h : g \in UniformGroups, h \in SecondGroups}
    \cup {h \o g : g \in UniformGroups, h \in SecondGroups}

\* longest list of trades _calculate_asset_performance is called with directly
MaxTrades == 3

\* pnl_pct of the trades of such a list, in hundredths
ListPnlValues == {-30, -10, -2, 0, 2, 30}

\* the lists of at most MaxTrades trades of one asset
TradeLists ==
    {GroupTrades("A", pnl_pcts, "oldest_first") :
        pnl_pcts \in UNION {[1..n -> ListPnlValues] : n \in 0..MaxTrades}}

\* MarketRegimeInput.indicators
IndicatorSettingsSet ==
    [ema_fast : {10}, ema_slow : {20, 21}, adx_period : {14}, atr_period : {14},
     rsi_period : {14}]

\* the latest values of the indicator columns and of the swing points
Markets ==
    [ema_fast : {99, 100, 101}, ema_slow : {100}, ema_slope : {-5, 4},
     adx : {19, 20, 25, 26}, rsi : {39, 40, 60, 61},
     close : {985, 1000}, sma_50 : {1000}, atr : {15, 16}, atr_avg : {10},
     prior_swing_highs : {<< >>, <<110>>}, recent_high : {110, 111},
     prior_swing_lows : {<< >>, <<90>>}, recent_low : {89}]

\* a market to fill the request of a call that never reads it
NoMarket == CHOOSE m \in Markets : TRUE

MarketRegimeInputs ==
    {[bars |-> n, indicators |-> s, rows |-> 0, market |-> NoMarket] :
        n \in 0..MaxBars, s \in IndicatorSettingsSet}
    \cup {[bars |-> n, indicators |-> s, rows |-> 1, market |-> m] :
            n \in (MaxBars - 1)..MaxBars, s \in IndicatorSettingsSet, m \in Markets}

\* every assignment of the eight booleans _classify_regime reads
IndicatorSets ==
    [is_ema_trend_up : BOOLEAN, is_ema_trend_down : BOOLEAN, is_strong_trend : BOOLEAN,
     is_bullish_momentum : BOOLEAN, is_bearish_momentum : BOOLEAN,
     is_weak_trend : BOOLEAN, is_in_band : BOOLEAN, is_ema_slope_flat : BOOLEAN]

\* the sources of votes
AgentNames == {"technical", "sentiment", "macro"}

\* Trade.agent_votes: technical votes buy or hold or not at all, sentiment
\* votes sell or not at all, each an AgentVote with a confidence in hundredths
AgentVotes ==
    {[a \in S |-> [action |-> IF a = "technical" THEN t ELSE "sell", confidence |-> 90]] :
        S \in SUBSET {"technical", "sentiment"}, t \in {"buy", "hold"}}

\* longest history analyze_agent_accuracy is called with
MaxVotedTrades == 2

\* Trade records with the fields analyze_agent_accuracy is described over
VotedTrades ==
    [asset_id : {"A"}, final_verdict : {"buy", "sell"}, pnl_pct : {-2, 2},
     agent_votes : AgentVotes]

\* the arguments of analyze_agent_accuracy; 50 is the default window
AccuracyRequests ==
    [trade_history : UNION {[1..n -> VotedTrades] : n \in 0..MaxVotedTrades},
     lookback_window : {1, 50}]

\* a dict from some of the agents to values
DictsOver(values) == UNION {[S -> values] : S \in SUBSET AgentNames}

\* the arguments of detect_confirmation_bias: accuracies and weights in
\* hundredths
BiasRequests ==
    [agent_accuracies : DictsOver({20, 50, 80}), agent_weights : DictsOver({40, 41})]

\* ------------------------------------------------------------------------
\* The service
\* ------------------------------------------------------------------------

\* mutation: one dict per field, shared by every instance
DefaultFactoryShared(policy_deltas) == policy_deltas

\* Field(default_factory=dict): the dicts the next PolicyDeltas() starts from,
\* after an instance with the given dicts; the factory builds new ones
DefaultFactory(policy_deltas) == PolicyDeltas(EmptyDict, EmptyDict)

\* a dict that starts as start, with the entries written into it
WrittenInto(start, written) == IF DOMAIN start = {} THEN written ELSE written @@ start

\* line 58: the response holds a PolicyDeltas() whose dicts start as the
\* factory gives them; lines 100 and 125 write into them
StartingFrom(start, result) ==
    [result EXCEPT !.policy_deltas =
        [agent_weights |-> WrittenInto(start.agent_weights, @.agent_weights),
         risk |-> WrittenInto(start.risk, @.risk),
         strategy_bias |-> WrittenInto(start.strategy_bias, @.strategy_bias),
         guardrails |-> WrittenInto(start.guardrails, @.guardrails),
         asset_biases |-> WrittenInto(start.asset_biases, @.asset_biases)]]

VARIABLES
    called,     \* the function a call is in flight for, "none" between calls
    request,    \* its argument
    response,   \* what it returned, or the exception it raised
    defaults,   \* the dicts a new PolicyDeltas() starts from
    earlier     \* a call has been answered before (history)

vars == <<called, request, response, defaults, earlier>>

Init ==
    /\ called = "none" /\ request = "None" /\ response = "None"
    /\ defaults = PolicyDeltas(EmptyDict, EmptyDict)
    /\ earlier = FALSE

\* POST /learn: run_learning_cycle(request)
learn ==
    /\ called = "none"
    /\ \E trade_history \in TradeHistories :
        /\ request' = trade_history
        /\ response' = StartingFrom(defaults, RunLearningCycle(trade_history))
    /\ defaults' = DefaultFactory(response'.policy_deltas)
    /\ called' = "run_learning_cycle"
    /\ UNCHANGED earlier

\* POST /market-regime: run_regime_analysis(request)
market_regime ==
    /\ called = "none"
    /\ \E input \in MarketRegimeInputs :
        /\ request' = input
        /\ response' = RunRegimeAnalysis(input)
    /\ called' = "run_regime_analysis"
    /\ UNCHANGED <<defaults, earlier>>

\* a direct call of _classify_regime(indicators, settings)
classify_regime ==
    /\ called = "none"
    /\ \E indicators \in IndicatorSets :
        /\ request' = indicators
        /\ response' = ClassifyRegime(indicators)
    /\ called' = "_classify_regime"
    /\ UNCHANGED <<defaults, earlier>>

\* a direct call of _calculate_asset_performance(trades)
calculate_asset_performance ==
    /\ called = "none"
    /\ \E trades \in TradeLists :
        /\ request' = trades
        /\ response' = CalculateAssetPerformance(trades)
    /\ called' = "_calculate_asset_performance"
    /\ UNCHANGED <<defaults, earlier>>

\* a direct call of analyze_agent_accuracy(trade_history, lookback_window)
analyze_agent_accuracy ==
    /\ called = "none"
    /\ \E arguments \in AccuracyRequests :
        /\ request' = arguments
        /\ response' = AnalyzeAgentAccuracy(arguments.trade_history, arguments.lookback_window)
    /\ called' = "analyze_agent_accuracy"
    /\ UNCHANGED <<defaults, earlier>>

\* a direct call of detect_confirmation_bias(agent_accuracies, agent_weights)
detect_confirmation_bias ==
    /\ called = "none"
    /\ \E arguments \in BiasRequests :
        /\ request' = arguments
        /\ response' = DetectConfirmationBias(arguments.agent_accuracies, arguments.agent_weights)
    /\ called' = "detect_confirmation_bias"
    /\ UNCHANGED <<defaults, earlier>>

\* the response is sent; nothing is kept from one call to the next
respond ==
    /\ called # "none"
    /\ called' = "none"
    /\ request' = "None"
    /\ response' = "None"
    /\ earlier' = TRUE
    /\ UNCHANGED defaults

Next ==
    \/ learn
    \/ market_regime
    \/ classify_regime
    \/ calculate_asset_performance
    \/ analyze_agent_accuracy
    \/ detect_confirmation_bias
    \/ respond

Spec == Init /\ [][Next]_vars

\* ------------------------------------------------------------------------
\* Properties of run_learning_cycle
\* ------------------------------------------------------------------------

Learned == called = "run_learning_cycle"

\* the assets of a trade history and the number of trades of one of them
AssetsOf(trade_history) == {trade_history[i].asset_id : i \in 1..Len(trade_history)}
TradeCount(trade_history, asset_id) ==
    Cardinality({i \in 1..Len(trade_history) : trade_history[i].asset_id = asset_id})

\* the reasoning entries about one asset
EntriesOf(reasoning, asset_id) ==
    {i \in 1..Len(reasoning) : reasoning[i].asset = asset_id}
EntriesOfKind(reasoning, kinds) ==
    {i \in 1..Len(reasoning) : reasoning[i].kind \in kinds}

\* C1: run_learning_cycle returns "insufficient_data" exactly when the trade
\* history is empty, "warmup" exactly when it is non-empty and every asset has
\* fewer than 10 trades, "success" in every other case, and never "active".
C1_LearningState ==
    Learned =>
        LET state == response.learning_state
            all_warming == \A a \in AssetsOf(request) : TradeCount(request, a) < 10
        IN  /\ (state = "insufficient_data") <=> (request = << >>)
            /\ (state = "warmup") <=> (request # << >> /\ all_warming)
            /\ (state = "success") <=> (request # << >> /\ ~all_warming)
            /\ state # "active"

\* two assets, both with fewer than 10 trades: "warmup"
C1_Witness ==
    /\ Learned
    /\ AssetsOf(request) = {"A", "B"}
    /\ TradeCount(request, "A") = 9
    /\ TradeCount(request, "B") < 10
    /\ response.learning_state = "warmup"

\* C2: an asset with fewer than 10 trades gets no entry in asset_biases, does
\* not contribute to the global risk-reduction flag (the flag is only raised
\* with a risk entry of an asset of at least 10 trades), and has exactly one
\* reasoning entry, which says it is in warmup.
C2_WarmupAsset ==
    Learned =>
        \A a \in AssetsOf(request) :
            TradeCount(request, a) < 10 =>
                /\ a \notin DOMAIN response.policy_deltas.asset_biases
                /\ Cardinality(EntriesOf(response.reasoning, a)) = 1
                /\ \A i \in EntriesOf(response.reasoning, a) :
                      /\ response.reasoning[i].kind = "warmup"
                      /\ response.reasoning[i].arg = TradeCount(request, a)
                /\ "risk_per_trade" \in DOMAIN response.policy_deltas.risk =>
                      \E i \in EntriesOfKind(response.reasoning,
                                             {"consecutive_losses", "high_recent_drawdown"}) :
                          TradeCount(request, response.reasoning[i].asset) >= 10

\* a warming asset with three losses in a row beside a warmed-up asset that
\* is not flagged: no risk step
C2_Witness ==
    /\ Learned
    /\ TradeCount(request, "B") = SmallGroup
    /\ \A i \in 1..Len(request) : request[i].asset_id = "B" => request[i].pnl_pct < 0
    /\ TradeCount(request, "A") >= 10
    /\ "A" \in DOMAIN response.policy_deltas.asset_biases
    /\ response.policy_deltas.risk = EmptyDict
    /\ response.learning_state = "success"

HasLossRun(pnl_pcts) ==
    \E i \in 1..(Len(pnl_pcts) - 2) :
        pnl_pcts[i] < 0 /\ pnl_pcts[i + 1] < 0 /\ pnl_pcts[i + 2] < 0

\* a warmed-up asset is flagged
Flagged(trade_history, asset_id) ==
    /\ TradeCount(trade_history, asset_id) >= 10
    /\ \/ HasLossRun(PnlPcts(RecentTrades(TradesOf(trade_history, asset_id))))
       \/ HighRecentDrawdown(
              CalculateAssetPerformance(RecentTrades(TradesOf(trade_history, asset_id))))

\* C4: risk has the key "risk_per_trade" iff at least one warmed-up asset is
\* flagged (three losses in a row in its recent window, or a recent-window
\* drawdown above 0.08); its value is then -0.005 however many assets are
\* flagged, it is announced once, and risk has no other key.
C4_GlobalRiskStep ==
    Learned =>
        LET risk == response.policy_deltas.risk
        IN  /\ ("risk_per_trade" \in DOMAIN risk)
                  <=> (\E a \in AssetsOf(request) : Flagged(request, a))
            /\ DOMAIN risk \subseteq {"risk_per_trade"}
            /\ \A k \in DOMAIN risk : risk[k] = -5
            /\ Cardinality(EntriesOfKind(response.reasoning, {"global_risk"}))
                  = Cardinality(DOMAIN risk)

\* two flagged assets, one step
C4_Witness ==
    /\ Learned
    /\ Flagged(request, "A")
    /\ Flagged(request, "B")
    /\ response.policy_deltas.risk = DictSet(EmptyDict, "risk_per_trade", -5)

\* a single-asset history of exactly 10 trades, 8 winning and 2 losing
EightOfTen(trade_history) ==
    /\ Len(trade_history) = 10
    /\ Cardinality(AssetsOf(trade_history)) = 1
    /\ Cardinality({i \in 1..10 : trade_history[i].pnl_pct > 0}) = 8
    /\ Cardinality({i \in 1..10 : trade_history[i].pnl_pct < 0}) = 2

\* the bias delta the response gives an asset, 0 for no entry
BiasOf(asset_id) ==
    IF asset_id \in DOMAIN response.policy_deltas.asset_biases
    THEN response.policy_deltas.asset_biases[asset_id] ELSE 0

\* C5, as stated: every single-asset history of exactly 10 trades, 8 with
\* pnl_pct > 0 and 2 with pnl_pct < 0, gets a bias delta greater than 0.
C5_AsStated ==
    (Learned /\ EightOfTen(request)) => \A a \in AssetsOf(request) : BiasOf(a) > 0

\* C5, amended: such a history gets a bias delta greater than 0 exactly when
\* its score is above 0.70, the win rate being 8/10; it does when no trade
\* moves more than 2 %.
C5_EightOfTenBias ==
    (Learned /\ EightOfTen(request)) =>
        \A a \in AssetsOf(request) :
            LET perf == CalculateAssetPerformance(TradesOf(request, a))
            IN  /\ perf.win_rate.n * 10 = 8 * perf.win_rate.d
                /\ (BiasOf(a) > 0) <=> (ScoreSign(perf, 70) > 0)
                /\ (\A i \in 1..Len(request) :
                        request[i].pnl_pct <= 2 /\ request[i].pnl_pct >= -2)
                   => BiasOf(a) = 5

\* eight trades of +2 % and two of -2 %: +0.05
C5_Witness ==
    /\ Learned
    /\ EightOfTen(request)
    /\ \A i \in 1..Len(request) : request[i].pnl_pct \in {-2, 2}
    /\ BiasOf("A") = 5

\* no delta of any kind
NoDeltas(policy_deltas) ==
    /\ DOMAIN policy_deltas.agent_weights = {}
    /\ DOMAIN policy_deltas.risk = {}
    /\ DOMAIN policy_deltas.strategy_bias = {}
    /\ DOMAIN policy_deltas.guardrails = {}
    /\ DOMAIN policy_deltas.asset_biases = {}

\* what run_learning_cycle returns for too little data
ShortfallResponse ==
    /\ response.learning_state \in {"warmup", "insufficient_data"}
    /\ NoDeltas(response.policy_deltas)
    /\ EntriesOfKind(response.reasoning, {"warmup", "no_trades"}) # {}

\* C6, as stated: every history with fewer than 20 entries gets "warmup" or
\* "insufficient_data", no delta, and a reasoning entry naming the shortfall.
C6_AsStated == (Learned /\ Len(request) < 20) => ShortfallResponse

\* C6, amended: every history with fewer than 10 entries does.
C6_ShortHistory == (Learned /\ Len(request) < 10) => ShortfallResponse

\* nine trades of one asset: warmup
C6_Witness ==
    /\ Learned
    /\ Len(request) = 9
    /\ response.learning_state = "warmup"
    /\ NoDeltas(response.policy_deltas)
    /\ Len(response.reasoning) = 1

\* ------------------------------------------------------------------------
\* Properties of run_regime_analysis and _classify_regime
\* ------------------------------------------------------------------------

Analysed == called = "run_regime_analysis"
Classified == called = "_classify_regime"

\* the call returned a result and did not raise
Returned == "exception" \notin DOMAIN response

\* two confidences are the same number
SameFrac(x, y) == x.n * y.d = y.n * x.d

\* the result of the readiness gate for a series that is too short
GateResponse ==
    /\ Returned
    /\ response.learning_state = "insufficient_data"
    /\ SameFrac(response.confidence, Frac(2, 10))
    /\ response.market_regime = "None"
    /\ response.reasoning # << >>
    /\ response.explanation = << >>
    /\ response.learned_patterns = << >>

\* C7, as stated: every series of fewer than ema_slow + 50 bars gets
\* "insufficient_data", confidence 0.2, no regime, a reasoning note and no
\* indicator; a series of at least ema_slow + 50 bars passes the gate.
C7_AsStated ==
    Analysed =>
        IF request.bars < request.indicators.ema_slow + 50
        THEN GateResponse
        ELSE Returned /\ response.reasoning # <<"price_history_too_short">>

\* the series passed the readiness gate and features were derived from it
FeaturesDerived ==
    /\ Analysed
    /\ request.bars >= request.indicators.ema_slow + 50
    /\ request.rows > 0

\* C8: when the series passes the gate and the volatility spike or the
\* structure break is true, the regime is "volatile_transition" with confidence
\* 1.0 whatever the eight scoring features are, and the explanation has one line
\* per trigger that fired, the spike first; when neither is true the result is
\* the one of the scoring classification.
C8_Override ==
    FeaturesDerived =>
        LET f == Features(request.market)
        IN  IF f.is_atr_spike \/ f.is_structure_break
            THEN /\ Returned
                 /\ response.market_regime = "volatile_transition"
                 /\ SameFrac(response.confidence, Frac(1, 1))
                 /\ response.explanation =
                        (IF f.is_atr_spike THEN <<"atr_spike">> ELSE << >>)
                        \o (IF f.is_structure_break THEN <<"structure_break">> ELSE << >>)
            ELSE /\ response = ClassifyRegime(Indicators(f))
                 /\ response.market_regime # "volatile_transition"

\* a structure break without a spike, with every feature of the uptrend true
C8_Witness ==
    /\ FeaturesDerived
    /\ Features(request.market).is_structure_break
    /\ ~Features(request.market).is_atr_spike
    /\ Features(request.market).is_ema_trend_up
    /\ Features(request.market).is_strong_trend
    /\ Features(request.market).is_bullish_momentum
    /\ response.market_regime = "volatile_transition"
    /\ response.explanation = <<"structure_break">>

Regimes == {"uptrend", "downtrend", "ranging"}

\* the number of true signals of a regime's group
ScoreOf(indicators, regime) ==
    IF regime = "uptrend"
    THEN CountTrue(<<indicators.is_ema_trend_up, indicators.is_strong_trend,
                     indicators.is_bullish_momentum>>)
    ELSE IF regime = "downtrend"
    THEN CountTrue(<<indicators.is_ema_trend_down, indicators.is_strong_trend,
                     indicators.is_bearish_momentum>>)
    ELSE CountTrue(<<indicators.is_weak_trend, indicators.is_in_band,
                     indicators.is_ema_slope_flat>>)

\* regime r is returned, with confidence score(r) / 3
ReturnedRegime(r) ==
    /\ response.market_regime = r
    /\ SameFrac(response.confidence, Frac(ScoreOf(request, r), 3))

\* the fallback result
UndefinedRegime ==
    /\ response.market_regime = "undefined"
    /\ SameFrac(response.confidence, Frac(3, 10))
    /\ response.explanation = <<"mixed_conditions">>

\* score(r) >= 2 and no other regime has the same score
AloneAtScore(r) ==
    /\ ScoreOf(request, r) >= 2
    /\ \A q \in Regimes \ {r} : ScoreOf(request, q) # ScoreOf(request, r)

\* C9, as stated: _classify_regime returns regime r with confidence
\* score(r) / 3 if and only if score(r) >= 2 and no other regime has a score
\* equal to score(r), and "undefined" with confidence 0.3 and one neutral line
\* in every other case.
C9_AsStated ==
    Classified =>
        /\ \A r \in Regimes : ReturnedRegime(r) <=> AloneAtScore(r)
        /\ UndefinedRegime <=> ~(\E r \in Regimes : AloneAtScore(r))

\* score(r) is the maximum of the three scores
MaximalScore(r) == \A q \in Regimes : ScoreOf(request, q) <= ScoreOf(request, r)

\* C9, amended: _classify_regime returns regime r with confidence score(r) / 3
\* if and only if score(r) is the maximum of the three scores, is at least 2
\* and is the score of no other regime; in every other case (maximum below 2,
\* or shared) it returns "undefined" with confidence 0.3 and one neutral line.
C9_StrictMaximum ==
    Classified =>
        /\ \A r \in Regimes : ReturnedRegime(r) <=> (MaximalScore(r) /\ AloneAtScore(r))
        /\ UndefinedRegime
              <=> ~(\E r \in Regimes : MaximalScore(r) /\ AloneAtScore(r))

\* uptrend scores 2, alone at 2, and ranging scores 3: ranging is returned
C9_Witness ==
    /\ Classified
    /\ ScoreOf(request, "uptrend") = 2
    /\ ScoreOf(request, "downtrend") < 2
    /\ ScoreOf(request, "ranging") = 3
    /\ response.market_regime = "ranging"
    /\ SameFrac(response.confidence, Frac(3, 3))

\* C10, as stated: for every input, an empty trade history and a series of
\* zero bars included, run_learning_cycle and run_regime_analysis return a
\* well-formed result, and too little data is a returned state, never a raised
\* exception.
C10_AsStated ==
    /\ Learned =>
          /\ response.learning_state \in {"insufficient_data", "warmup", "success"}
          /\ request = << >> => response.learning_state = "insufficient_data"
    /\ Analysed =>
          /\ Returned
          /\ response.learning_state \in {"insufficient_data", "success"}
          /\ request.bars < request.indicators.ema_slow + 50
                => response.learning_state = "insufficient_data"

\* ------------------------------------------------------------------------
\* Properties of the service as a whole
\* ------------------------------------------------------------------------

C12_TerminalStates ==
    (Analysed /\ Returned) =>
        LET c == response.confidence
            regime == response.market_regime
        IN  /\ c.d > 0 /\ 0 <= c.n /\ c.n <= c.d
            /\ (regime = "None") <=> (response.learning_state = "insufficient_data")
            /\ IF response.learning_state = "insufficient_data"
               THEN SameFrac(c, Frac(2, 10))
               ELSE /\ response.learning_state = "success"
                    /\ \/ regime = "volatile_transition" /\ SameFrac(c, Frac(1, 1))
                       \/ regime \in Regimes
                            /\ (SameFrac(c, Frac(2, 3)) \/ SameFrac(c, Frac(1, 1)))
                       \/ regime = "undefined" /\ SameFrac(c, Frac(3, 10))

\* a downtrend on two signals of three
C12_Witness ==
    /\ Analysed
    /\ Returned
    /\ response.learning_state = "success"
    /\ response.market_regime = "downtrend"
    /\ SameFrac(response.confidence, Frac(2, 3))

\* ------------------------------------------------------------------------
\* Properties of _calculate_asset_performance
\* ------------------------------------------------------------------------

Measured == called = "_calculate_asset_performance"

\* C13: for a non-empty list of trades win_rate is the number of trades with
\* pnl_pct > 0 over the number of trades, in [0,1], a trade with pnl_pct = 0
\* not being a win; for the empty list win_rate, max_drawdown, volatility and
\* trade_count are 0 and nothing is divided by zero; for a single trade
\* volatility is 0.
C13_WinRate ==
    Measured =>
        LET wins == Cardinality({i \in 1..Len(request) : request[i].pnl_pct > 0})
            w == response.win_rate
        IN  /\ w.d > 0 /\ 0 <= w.n /\ w.n <= w.d
            /\ response.max_drawdown.d # BigZero
            /\ response.volatility_sq.d > 0
            /\ w.n * Len(request) = wins * w.d
            /\ response.trade_count = Len(request)
            /\ request = << >> =>
                  /\ w.n = 0
                  /\ response.max_drawdown.n = BigZero
                  /\ response.volatility_sq.n = 0
            /\ Len(request) = 1 => response.volatility_sq.n = 0

\* three trades, one winning, one losing, one breaking even: win_rate 1/3
C13_Witness ==
    /\ Measured
    /\ Len(request) = 3
    /\ \E i, j, k \in 1..3 :
          request[i].pnl_pct > 0 /\ request[j].pnl_pct = 0 /\ request[k].pnl_pct < 0
    /\ response.win_rate.n * 3 = response.win_rate.d

\* C14, as stated: for a non-empty list of trades max_drawdown is the maximum
\* of (running peak - current) / running peak over the equity curve that starts
\* at the baseline, the baseline being a point of the curve and of the peak.
\* (A first trade of 0 % puts the baseline into the curve of the code.)
C14_AsStated ==
    (Measured /\ request # << >>) =>
        BigFracCmp(response.max_drawdown, MaxDrawdown(<<0>> \o PnlPcts(request))) = 0

\* the scoring features of the request of run_regime_analysis
DerivedIndicators == Indicators(Features(request.market))

\* neither the volatility spike nor the structure break is true
NoOverride ==
    /\ ~Features(request.market).is_atr_spike
    /\ ~Features(request.market).is_structure_break

\* the greatest of the three scores
TopScore == CHOOSE n \in 0..3 :
    /\ \E r \in Regimes : ScoreOf(DerivedIndicators, r) = n
    /\ \A r \in Regimes : ScoreOf(DerivedIndicators, r) <= n

\* C19: with the features derived by run_regime_analysis the two trend
\* directions, the strong and the weak trend, and the bullish and the bearish
\* momentum exclude each other; when no override fires and a regime scores 3 no
\* other regime scores 3 and that regime is returned with confidence 1.0; and
\* "undefined" is returned only when the greatest score is below 2, or is 2 and
\* shared.
C19_DerivedFeatures ==
    (FeaturesDerived /\ NoOverride) =>
        /\ ~(DerivedIndicators.is_ema_trend_up /\ DerivedIndicators.is_ema_trend_down)
        /\ ~(DerivedIndicators.is_strong_trend /\ DerivedIndicators.is_weak_trend)
        /\ ~(DerivedIndicators.is_bullish_momentum /\ DerivedIndicators.is_bearish_momentum)
        /\ Returned
        /\ \A r \in Regimes :
              ScoreOf(DerivedIndicators, r) = 3 =>
                  /\ \A q \in Regimes \ {r} : ScoreOf(DerivedIndicators, q) < 3
                  /\ response.market_regime = r
                  /\ SameFrac(response.confidence, Frac(1, 1))
        /\ response.market_regime = "undefined" =>
              \/ TopScore < 2
              \/ /\ TopScore = 2
                 /\ Cardinality({r \in Regimes : ScoreOf(DerivedIndicators, r) = 2}) >= 2

\* the uptrend scores 3 and the ranging market 2, its most under an ADX
\* above 25: uptrend is returned with confidence 1.0
C19_Witness ==
    /\ FeaturesDerived
    /\ NoOverride
    /\ ScoreOf(DerivedIndicators, "uptrend") = 3
    /\ ScoreOf(DerivedIndicators, "ranging") = 2
    /\ response.market_regime = "uptrend"
    /\ SameFrac(response.confidence, Frac(1, 1))

\* the uptrend and the ranging market both score 2: "undefined"
C19_TieAtTwo ==
    /\ FeaturesDerived
    /\ NoOverride
    /\ ScoreOf(DerivedIndicators, "uptrend") = 2
    /\ ScoreOf(DerivedIndicators, "ranging") = 2
    /\ response.market_regime = "undefined"

\* the position of the first trade of an asset in the history
FirstAppearance(trade_history, asset_id) ==
    CHOOSE i \in 1..Len(trade_history) :
        /\ trade_history[i].asset_id = asset_id
        /\ \A j \in 1..(i - 1) : trade_history[j].asset_id # asset_id

\* C20: with learning_state "warmup" or "insufficient_data" every policy delta
\* is empty and reasoning is not; in "warmup" reasoning holds one warmup entry
\* per asset, in the order in which the assets first appear in the history; in
\* "insufficient_data" it holds one entry; and a risk or asset_biases delta
\* that is not empty comes with learning_state "success".
C20_NoDeltasBeforeSuccess ==
    Learned =>
        /\ response.learning_state \in {"warmup", "insufficient_data"} =>
              /\ NoDeltas(response.policy_deltas)
              /\ response.reasoning # << >>
        /\ response.learning_state = "warmup" =>
              /\ Len(response.reasoning) = Cardinality(AssetsOf(request))
              /\ \A k \in 1..Len(response.reasoning) :
                    /\ response.reasoning[k].kind = "warmup"
                    /\ response.reasoning[k].asset \in AssetsOf(request)
              /\ \A k, l \in 1..Len(response.reasoning) :
                    k < l => FirstAppearance(request, response.reasoning[k].asset)
                               < FirstAppearance(request, response.reasoning[l].asset)
        /\ response.learning_state = "insufficient_data" => Len(response.reasoning) = 1
        /\ (DOMAIN response.policy_deltas.risk # {}
               \/ DOMAIN response.policy_deltas.asset_biases # {}) =>
              response.learning_state = "success"

\* asset B, listed first with 3 trades, and asset A with 9: "warmup", the
\* entry of B before the entry of A
C20_Witness ==
    /\ Learned
    /\ Len(request) = 12
    /\ request[1].asset_id = "B"
    /\ request[12].asset_id = "A"
    /\ response.learning_state = "warmup"
    /\ NoDeltas(response.policy_deltas)
    /\ Len(response.reasoning) = 2
    /\ response.reasoning[1].asset = "B"
    /\ response.reasoning[2].asset = "A"

\* ------------------------------------------------------------------------
\* Properties of analysis.py
\* ------------------------------------------------------------------------

AccuracyAnalysed == called = "analyze_agent_accuracy"
BiasChecked == called = "detect_confirmation_bias"

\* the trades of the lookback window of the request
WindowOf(arguments) ==
    LET n == Len(arguments.trade_history)
        from == IF arguments.lookback_window >= n THEN 1 ELSE n - arguments.lookback_window + 1
    IN  SubSeq(arguments.trade_history, from, n)

\* the trades of a window in which a source cast a "buy" or "sell" vote
DirectionalVotes(window, source) ==
    {i \in 1..Len(window) :
        /\ source \in DOMAIN window[i].agent_votes
        /\ window[i].agent_votes[source].action \in {"buy", "sell"}}

\* the votes of a source that were correct
CorrectVotes(window, source) ==
    {i \in DirectionalVotes(window, source) :
        \/ window[i].pnl_pct > 0
           /\ window[i].agent_votes[source].action = window[i].final_verdict
        \/ window[i].pnl_pct <= 0
           /\ window[i].agent_votes[source].action # window[i].final_verdict}

\* C15, as stated: for a history of Trade records analyze_agent_accuracy
\* returns, for each source with a "buy" or "sell" vote in the lookback window,
\* correct / total directional votes, a value in [0,1]; a source all of whose
\* votes are "hold", or that has none, is absent from the result.
C15_AsStated ==
    AccuracyAnalysed =>
        /\ Returned
        /\ \A source \in AgentNames :
            LET total == Cardinality(DirectionalVotes(WindowOf(request), source))
                correct == Cardinality(CorrectVotes(WindowOf(request), source))
            IN  IF total = 0 THEN source \notin DOMAIN response
                ELSE /\ source \in DOMAIN response
                     /\ SameFrac(response[source], Frac(correct, total))
                     /\ 0 <= response[source].n /\ response[source].n <= response[source].d

\* the middle value of an odd number of accuracies, the mean of the two
\* middle values of an even number, doubled
TwiceMedian(agent_accuracies) ==
    LET values == SortedValues(agent_accuracies)
        n == Len(values)
    IN  IF n % 2 = 1 THEN 2 * values[(n + 1) \div 2]
        ELSE values[n \div 2] + values[n \div 2 + 1]

\* C16: a source is flagged exactly when it is in the accuracy map, its
\* weight is above 0.4 and its accuracy is below the median of the map, for an
\* even number of sources too; the result is empty for an empty accuracy map.
C16_ConfirmationBias ==
    BiasChecked =>
        /\ Returned
        /\ request.agent_accuracies = EmptyDict => DOMAIN response = {}
        /\ request.agent_accuracies # EmptyDict =>
            /\ DOMAIN response = DOMAIN request.agent_weights
            /\ \A source \in DOMAIN response :
                response[source] <=>
                    /\ source \in DOMAIN request.agent_accuracies
                    /\ request.agent_weights[source] > 40
                    /\ 2 * request.agent_accuracies[source]
                         < TwiceMedian(request.agent_accuracies)
        /\ \A source \in DOMAIN response :
            response[source] =>
                /\ source \in DOMAIN request.agent_accuracies
                /\ request.agent_weights[source] > 40

\* two sources of different accuracy and high weight: the one on the lower
\* middle value is flagged, the one on the upper is not, a third source
\* without an accuracy is not
C16_Witness ==
    /\ BiasChecked
    /\ Cardinality(DOMAIN request.agent_accuracies) = 2
    /\ DOMAIN request.agent_weights = AgentNames
    /\ \E low, high, none \in AgentNames :
        /\ none \notin DOMAIN request.agent_accuracies
        /\ low \in DOMAIN request.agent_accuracies
        /\ high \in DOMAIN request.agent_accuracies
        /\ request.agent_accuracies[low] < request.agent_accuracies[high]
        /\ \A a \in AgentNames : request.agent_weights[a] > 40
        /\ response[low] /\ ~response[high] /\ ~response[none]

\* ------------------------------------------------------------------------
\* Properties of the recent window of run_learning_cycle
\* ------------------------------------------------------------------------

\* no two trades of the list have the same timestamp
DistinctTimestamps(trades) ==
    \A i, j \in 1..Len(trades) : i # j => trades[i].timestamp # trades[j].timestamp

\* the positions of the trades that fewer than 10 trades of the list are
\* more recent than
MostRecent(trades) ==
    {i \in 1..Len(trades) :
        Cardinality({j \in 1..Len(trades) : trades[j].timestamp > trades[i].timestamp}) < 10}

\* those trades, the oldest first
ChronologicalWindow(trades) ==
    [k \in 1..Cardinality(MostRecent(trades)) |->
        trades[CHOOSE i \in MostRecent(trades) :
                  Cardinality({j \in MostRecent(trades) :
                                  trades[j].timestamp < trades[i].timestamp}) = k - 1]]

\* the reasoning entries of one kind about one asset
EntriesAbout(reasoning, kind, asset_id) ==
    {i \in 1..Len(reasoning) : reasoning[i].kind = kind /\ reasoning[i].asset = asset_id}

\* the asset has at least 10 trades, each with a timestamp of its own
WarmedUp(trade_history, asset_id) ==
    /\ Len(TradesOf(trade_history, asset_id)) >= 10
    /\ DistinctTimestamps(TradesOf(trade_history, asset_id))

\* C17, as stated: a warmed-up asset is reported for a high recent drawdown
\* exactly when the max drawdown of the curve compounded oldest trade first
\* over its 10 most recent trades by timestamp is above 0.08.
C17_AsStated ==
    Learned =>
        \A a \in AssetsOf(request) :
            WarmedUp(request, a) =>
                (EntriesAbout(response.reasoning, "high_recent_drawdown", a) # {}
                    <=> HighRecentDrawdown(CalculateAssetPerformance(
                            ChronologicalWindow(TradesOf(request, a)))))

\* C18: a warmed-up asset is reported for consecutive losses exactly when its
\* 10 most recent trades by timestamp hold three adjacent trades with
\* pnl_pct < 0; older losses do not count, the report says 3, and no asset is
\* reported twice.
C18_ConsecutiveLosses ==
    Learned =>
        \A a \in AssetsOf(request) :
            LET entries == EntriesAbout(response.reasoning, "consecutive_losses", a)
            IN  /\ Cardinality(entries) <= 1
                /\ \A i \in entries : response.reasoning[i].arg = 3
                /\ WarmedUp(request, a) =>
                      (entries # {}
                          <=> HasLossRun(PnlPcts(ChronologicalWindow(TradesOf(request, a)))))

\* eleven trades whose three oldest are losses: two of them are among the 10
\* most recent, and the asset is not reported
C18_Witness ==
    /\ Learned
    /\ Len(request) = 11
    /\ WarmedUp(request, "A")
    /\ \A i \in 1..11 : request[i].pnl_pct < 0 <=> request[i].timestamp <= 3
    /\ EntriesAbout(response.reasoning, "consecutive_losses", "A") = {}

\* three losses among the four newest trades, a trade of 0 % between them
C18_ResetWitnessed ==
    /\ Learned
    /\ WarmedUp(request, "A")
    /\ \E i, j, k, l \in 1..Len(request) :
          /\ request[i].timestamp = Len(request) /\ request[i].pnl_pct < 0
          /\ request[j].timestamp = Len(request) - 1 /\ request[j].pnl_pct < 0
          /\ request[k].timestamp = Len(request) - 2 /\ request[k].pnl_pct = 0
          /\ request[l].timestamp = Len(request) - 3 /\ request[l].pnl_pct < 0
    /\ EntriesAbout(response.reasoning, "consecutive_losses", "A") = {}

====
